---- MODULE Spec2Model ----
(***************************************************************************)
(* Split-pane scroll synchronisation of NotePage                           *)
(* (src/frontend/src/pages/TagsPage.tsx, lines 325-646 and 970-1000).      *)
(*                                                                         *)
(* The buffer pane is the <textarea>, the rendered pane is the preview     *)
(* <div>.  Pixel values are exact rationals <<n, d>> (JavaScript numbers   *)
(* are doubles; the model keeps the exact quotient instead of a rounded    *)
(* one).  A scroll offset is a whole number of pixels: the scrollTop       *)
(* setter snaps the assigned value to the pixel grid of a display with     *)
(* device pixel ratio 1 and clamps it to [0, scrollHeight - clientHeight]. *)
(***************************************************************************)
EXTENDS Integers, Sequences, FiniteSets, TLC

(***************************************************************************)
(* Exact rational arithmetic: a number is <<n, d>> with d > 0, in lowest   *)
(* terms.                                                                  *)
(***************************************************************************)
RECURSIVE Gcd(_, _)
Gcd(a, b) == IF b = 0 THEN a ELSE Gcd(b, a % b)

Abs(i) == IF i < 0 THEN -i ELSE i

RNorm(n, d) ==
  LET g == Gcd(Abs(n), d)
  IN  IF n = 0 THEN <<0, 1>> ELSE <<n \div g, d \div g>>

R(i) == <<i, 1>>
RAdd(a, b) == RNorm(a[1] * b[2] + b[1] * a[2], a[2] * b[2])
RSub(a, b) == RNorm(a[1] * b[2] - b[1] * a[2], a[2] * b[2])
RMul(a, b) == RNorm(a[1] * b[1], a[2] * b[2])
\* a / b for b # 0
RDiv(a, b) ==
  IF b[1] > 0 THEN RNorm(a[1] * b[2], a[2] * b[1])
  ELSE RNorm(-(a[1] * b[2]), a[2] * (-b[1]))
RLe(a, b) == a[1] * b[2] <= b[1] * a[2]
RLt(a, b) == a[1] * b[2] < b[1] * a[2]
RMax(a, b) == IF RLe(a, b) THEN b ELSE a
RMin(a, b) == IF RLe(a, b) THEN a ELSE b
\* Math.floor
RFloor(a) == a[1] \div a[2]

Max(a, b) == IF a >= b THEN a ELSE b
Min(a, b) == IF a <= b THEN a ELSE b

RECURSIVE SumSeq(_)
SumSeq(s) == IF s = <<>> THEN 0 ELSE Head(s) + SumSeq(Tail(s))

(***************************************************************************)
(* Layout constants of the two panes.                                      *)
(***************************************************************************)
\* class "text-sm": one text row of the textarea is 20px high
RowHeight == 20
\* class "p-4": both panes have 16px padding
PanePadding == 16
\* preview.getBoundingClientRect().top: where the preview's box sits in the
\* viewport (it cancels in the ranges)
PreviewRectTop == 100

(***************************************************************************)
(* The document.  content is the buffer text, kept as the sequence of its  *)
(* lines (content.split('\n')), each line as its length in characters; the *)
(* pane width is in character columns.  A block element of the preview is  *)
(* [startAttr, endAttr, y, h]: its data-source-line and                    *)
(* data-source-end-line attributes (0: absent or not a number), its top    *)
(* edge measured from the content origin of the preview, and its height.   *)
(***************************************************************************)
\* offsetHeight of the mirror's child for one line: a line wraps at the pane
\* width, and an empty line is measured with a zero-width space (one row)
MeasureLine(len, width) ==
  RowHeight * Max(1, (len + width - 1) \div width)

\* children.map(el => el.offsetHeight)
MeasureHeights(text, width) ==
  [i \in 1..Len(text) |-> MeasureLine(text[i], width)]

\* lineTops taken at the bottom edge of each child
MeasureTops_Through(text, width) ==
  [i \in 1..Len(text) |-> SumSeq(SubSeq(MeasureHeights(text, width), 1, i))]

\* children.map(el => el.offsetTop - paddingTop): the children are stacked
MeasureTops(text, width) ==
  [i \in 1..Len(text) |-> SumSeq(SubSeq(MeasureHeights(text, width), 1, i - 1))]

\* the metrics object built at line 463
BuildMetrics(text, width) ==
  [content |-> text, width |-> width,
   lineTops |-> MeasureTops(text, width),
   lineHeights |-> MeasureHeights(text, width)]

\* a cache test on the content alone
EnsureEditorMetrics_ContentOnly(cache, text, width) ==
  IF cache # <<>> /\ cache[1].content = text
  THEN cache[1]
  ELSE BuildMetrics(text, width)

\* ensureEditorMetrics with a mounted textarea: the cached object when its key
\* equals the live content and width, a new one otherwise.  cache is <<>>
\* (null) or <<metrics>>.
EnsureEditorMetrics(cache, text, width) ==
  IF cache # <<>> /\ cache[1].content = text /\ cache[1].width = width
  THEN cache[1]
  ELSE BuildMetrics(text, width)

\* textarea.scrollHeight: the laid out text and both paddings, at least the
\* viewport
EditorScrollHeight(text, width, clientHeight) ==
  Max(clientHeight, SumSeq(MeasureHeights(text, width)) + 2 * PanePadding)

\* preview.scrollHeight
PreviewScrollHeight(contentHeight, clientHeight) ==
  Max(clientHeight, contentHeight + 2 * PanePadding)

\* Math.round: the nearest integer, halves upwards
RRound(a) == (2 * a[1] + a[2]) \div (2 * a[2])

\* a setter that only keeps the offset from being negative
SetScrollTop_NoUpperClamp(v, scrollHeight, clientHeight) ==
  Max(0, RRound(v))

\* the DOM scrollTop setter, given a number: snaps to a whole pixel and
\* clamps to [0, scrollHeight - clientHeight]
SetScrollTop(v, scrollHeight, clientHeight) ==
  Max(0, Min(RRound(v), scrollHeight - clientHeight))

(***************************************************************************)
(* getPreviewBlockRanges.                                                  *)
(***************************************************************************)
\* el.getBoundingClientRect().top of a block element of the preview
ElementRectTop(el, scrollTop) ==
  PreviewRectTop + PanePadding + el.y - scrollTop

\* RangeOfElement without the "+ preview.scrollTop" of line 372
RangeOfElement_NoScrollTop(el, scrollTop) ==
  IF el.startAttr <= 0 \/ el.endAttr <= 0 THEN <<>>
  ELSE LET top == ElementRectTop(el, scrollTop) - PreviewRectTop - PanePadding
       IN  <<[startLine |-> el.startAttr,
              endLine |-> Max(el.startAttr, el.endAttr),
              top |-> top,
              bottom |-> top + el.h]>>

\* the callback of .map(): null (<<>>) for an element without a positive start
\* and end line, else <<range>>
RangeOfElement(el, scrollTop) ==
  IF el.startAttr <= 0 \/ el.endAttr <= 0 THEN <<>>
  ELSE LET top == ElementRectTop(el, scrollTop) - PreviewRectTop + scrollTop
                  - PanePadding
       IN  <<[startLine |-> el.startAttr,
              endLine |-> Max(el.startAttr, el.endAttr),
              top |-> top,
              bottom |-> top + el.h]>>

\* .map(...).filter(r => r !== null)
RECURSIVE MapFilterRanges(_, _)
MapFilterRanges(els, scrollTop) ==
  IF els = <<>> THEN <<>>
  ELSE RangeOfElement(Head(els), scrollTop) \o MapFilterRanges(Tail(els), scrollTop)

\* the comparator of line 383, as "a sorts strictly before b"
ByStartLineThenTop(a, b) ==
  \/ a.startLine < b.startLine
  \/ a.startLine = b.startLine /\ a.top < b.top

\* the comparator of line 608
ByTop(a, b) == a.top < b.top

\* Array.prototype.sort is stable: x goes after every element that does not
\* sort strictly after it
RECURSIVE InsertByStartLine(_, _)
InsertByStartLine(x, s) ==
  IF s = <<>> THEN <<x>>
  ELSE IF ByStartLineThenTop(x, Head(s)) THEN <<x>> \o s
       ELSE <<Head(s)>> \o InsertByStartLine(x, Tail(s))

\* the list as .map and .filter leave it: no sort
SortByStartLine_Unsorted(s) == s

\* .sort((a, b) => a.startLine - b.startLine || a.top - b.top)
RECURSIVE SortByStartLine(_)
SortByStartLine(s) ==
  IF s = <<>> THEN <<>>
  ELSE InsertByStartLine(s[Len(s)], SortByStartLine(SubSeq(s, 1, Len(s) - 1)))

RECURSIVE InsertByTop(_, _)
InsertByTop(x, s) ==
  IF s = <<>> THEN <<x>>
  ELSE IF ByTop(x, Head(s)) THEN <<x>> \o s
       ELSE <<Head(s)>> \o InsertByTop(x, Tail(s))

\* [...ranges].sort((a, b) => a.top - b.top)
RECURSIVE SortByTop(_)
SortByTop(s) ==
  IF s = <<>> THEN <<>>
  ELSE InsertByTop(s[Len(s)], SortByTop(SubSeq(s, 1, Len(s) - 1)))

getPreviewBlockRanges(els, scrollTop) ==
  SortByStartLine(MapFilterRanges(els, scrollTop))

(***************************************************************************)
(* getEditorTopLine and lineFloatToEditorScrollTop.  Arrays are 0-based in *)
(* the code and 1-based here: lineTops[mid] of the code is                 *)
(* lineTops[mid + 1] of the model.                                         *)
(***************************************************************************)
\* the while loop of lines 486-494; lo, hi, idx are the code's 0-based values
RECURSIVE TopLineSearch(_, _, _, _, _)
TopLineSearch(lineTops, y, lo, hi, idx) ==
  IF lo > hi THEN idx
  ELSE LET mid == (lo + hi) \div 2
       IN  IF lineTops[mid + 1] <= y
           THEN TopLineSearch(lineTops, y, mid + 1, hi, mid)
           ELSE TopLineSearch(lineTops, y, lo, mid - 1, idx)

\* Math.max(1, lineHeights[idx] || 1), idx 0-based
LineHeightAt(metrics, idx) ==
  Max(1, IF metrics.lineHeights[idx + 1] = 0 THEN 1 ELSE metrics.lineHeights[idx + 1])

\* lines 480-501 with "line = idx" at line 499
getEditorTopLine_ZeroBased(metrics, y) ==
  LET idx == TopLineSearch(metrics.lineTops, y, 0, Len(metrics.lineTops) - 1, 0)
      top == metrics.lineTops[idx + 1]
      height == LineHeightAt(metrics, idx)
      progress == RMin(R(1), RMax(R(0), RNorm(y - top, height)))
      line == idx
  IN  [line |-> line, progress |-> progress, lineFloat |-> RAdd(R(line), progress)]

\* lines 480-501, for metrics with at least one line
getEditorTopLine(metrics, y) ==
  LET idx == TopLineSearch(metrics.lineTops, y, 0, Len(metrics.lineTops) - 1, 0)
      top == metrics.lineTops[idx + 1]
      height == LineHeightAt(metrics, idx)
      progress == RMin(R(1), RMax(R(0), RNorm(y - top, height)))
      line == idx + 1
  IN  [line |-> line, progress |-> progress, lineFloat |-> RAdd(R(line), progress)]

\* line 516 without Math.min(lineTops.length, ...)
BaseLine_NoMin(metrics, lineFloat) ==
  LET n == Len(metrics.lineTops)
      clamped == RMin(RMax(R(1), lineFloat), R(n + 1))
  IN  Max(1, RFloor(clamped))

\* lines 515-516: baseLine
BaseLine(metrics, lineFloat) ==
  LET n == Len(metrics.lineTops)
      clamped == RMin(RMax(R(1), lineFloat), R(n + 1))
  IN  Min(n, Max(1, RFloor(clamped)))

\* lines 514-520, for metrics with at least one line
lineFloatToEditorScrollTop(metrics, lineFloat) ==
  LET n == Len(metrics.lineTops)
      clamped == RMin(RMax(R(1), lineFloat), R(n + 1))
      baseLine == BaseLine(metrics, lineFloat)
      frac == RSub(clamped, R(baseLine))
      idx == baseLine - 1
  IN  RMax(R(0), RAdd(R(metrics.lineTops[idx + 1]),
                      RMul(frac, R(LineHeightAt(metrics, idx)))))

(***************************************************************************)
(* The forward mapper: lines 540-577 of handleEditorScroll.                *)
(***************************************************************************)
\* the for loop of lines 550-556; i, before, after are 1-based indices into
\* ranges (the code compares the objects by identity)
RECURSIVE ForwardBracket(_, _, _, _, _)
ForwardBracket(ranges, lineFloat, i, before, after) ==
  IF i > Len(ranges) THEN <<before, after>>
  ELSE LET b == IF RLe(R(ranges[i].startLine), lineFloat) THEN i ELSE before
       IN  IF RLe(lineFloat, R(ranges[i].startLine))
           THEN <<b, i>>
           ELSE ForwardBracket(ranges, lineFloat, i + 1, b, after)

\* ForwardBranch with "lineFloat > last.endLine" at line 561
ForwardBranch_StrictBottom(ranges, lineFloat) ==
  LET ba == ForwardBracket(ranges, lineFloat, 1, 1, Len(ranges))
      before == ranges[ba[1]]
      last_ == ranges[Len(ranges)]
  IN  IF RLt(R(last_.endLine), lineFloat) THEN "bottom"
      ELSE IF RLe(R(before.startLine), lineFloat) /\ RLe(lineFloat, R(before.endLine))
           THEN "within"
      ELSE IF ba[1] = ba[2] THEN "same"
      ELSE "gap"

\* which branch of lines 561-575 is taken
ForwardBranch(ranges, lineFloat) ==
  LET ba == ForwardBracket(ranges, lineFloat, 1, 1, Len(ranges))
      before == ranges[ba[1]]
      last_ == ranges[Len(ranges)]
  IN  IF RLe(R(last_.endLine), lineFloat) THEN "bottom"
      ELSE IF RLe(R(before.startLine), lineFloat) /\ RLe(lineFloat, R(before.endLine))
           THEN "within"
      ELSE IF ba[1] = ba[2] THEN "same"
      ELSE "gap"

\* lines 564-567: interpolation within the block before
ForwardWithin(before, top) ==
  LET lineRange == before.endLine - before.startLine
      height == Max(1, before.bottom - before.top)
      within == IF lineRange > 0
                THEN RDiv(RSub(top.lineFloat, R(before.startLine)), R(lineRange))
                ELSE top.progress
  IN  RAdd(R(before.top), RMul(RMin(R(1), RMax(R(0), within)), R(height)))

\* lines 571-574 with the pixel gap measured from the top of before
ForwardGap_FromTop(before, after, lineFloat) ==
  LET gapLines == Max(1, after.startLine - before.endLine)
      gapPixels == after.top - before.top
      within == RDiv(RSub(lineFloat, R(before.endLine)), R(gapLines))
  IN  RAdd(R(before.bottom), RMul(within, R(gapPixels)))

\* lines 571-574: interpolation across the gap between before and after
ForwardGap(before, after, lineFloat) ==
  LET gapLines == Max(1, after.startLine - before.endLine)
      gapPixels == after.top - before.bottom
      within == RDiv(RSub(lineFloat, R(before.endLine)), R(gapLines))
  IN  RAdd(R(before.bottom), RMul(within, R(gapPixels)))

\* targetScroll of lines 559-575; top is the result of getEditorTopLine and
\* max is preview.scrollHeight - preview.clientHeight
ForwardTarget(ranges, top, max) ==
  LET ba == ForwardBracket(ranges, top.lineFloat, 1, 1, Len(ranges))
      before == ranges[ba[1]]
      after == ranges[ba[2]]
      branch == ForwardBranch(ranges, top.lineFloat)
  IN  CASE branch = "bottom" -> R(max)
        [] branch = "within" -> ForwardWithin(before, top)
        [] branch = "same" -> R(before.top)
        [] OTHER -> ForwardGap(before, after, top.lineFloat)

\* lines 542-543 with the two scrollable ranges exchanged
PercentageScroll_Swapped(srcTop, srcMax, dstMax) ==
  RMul(RNorm(srcTop, Max(1, dstMax)), R(srcMax))

\* lines 542-543 (and 603-604): simple percentage scroll of the other pane
PercentageScroll(srcTop, srcMax, dstMax) ==
  RMul(RNorm(srcTop, Max(1, srcMax)), R(dstMax))

\* the value assigned to preview.scrollTop at line 543 or 577
ForwardValue(ranges, metrics, srcTop, srcMax, dstMax) ==
  IF ranges = <<>>
  THEN PercentageScroll(srcTop, srcMax, dstMax)
  ELSE RMax(R(0), ForwardTarget(ranges, getEditorTopLine(metrics, srcTop), dstMax))

(***************************************************************************)
(* The inverse mapper: lines 601-640 of handlePreviewScroll.               *)
(***************************************************************************)
\* the for loop of lines 612-619; i, before, after are 1-based indices into
\* byTop
RECURSIVE InverseBracket(_, _, _, _, _)
InverseBracket(byTop, scrollTop, i, before, after) ==
  IF i > Len(byTop) THEN <<before, after>>
  ELSE LET b == IF byTop[i].top <= scrollTop THEN i ELSE before
       IN  IF byTop[i].bottom >= scrollTop
           THEN <<b, i>>
           ELSE InverseBracket(byTop, scrollTop, i + 1, b, after)

\* InverseBranch with "scrollTop > last.bottom" at line 624
InverseBranch_StrictBottom(ranges, scrollTop) ==
  LET byTop == SortByTop(ranges)
      ba == InverseBracket(byTop, scrollTop, 1, 1, Len(byTop))
      before == byTop[ba[1]]
      last_ == byTop[Len(byTop)]
  IN  IF scrollTop > last_.bottom THEN "bottom"
      ELSE IF before.top <= scrollTop /\ scrollTop <= before.bottom THEN "within"
      ELSE IF ba[1] = ba[2] THEN "same"
      ELSE "gap"

\* which branch of lines 624-638 is taken
InverseBranch(ranges, scrollTop) ==
  LET byTop == SortByTop(ranges)
      ba == InverseBracket(byTop, scrollTop, 1, 1, Len(byTop))
      before == byTop[ba[1]]
      last_ == byTop[Len(byTop)]
  IN  IF scrollTop >= last_.bottom THEN "bottom"
      ELSE IF before.top <= scrollTop /\ scrollTop <= before.bottom THEN "within"
      ELSE IF ba[1] = ba[2] THEN "same"
      ELSE "gap"

\* lines 627-630 with "within * lineRange" at line 630
InverseWithin_NoSpanGuard(before, scrollTop) ==
  LET height == Max(1, before.bottom - before.top)
      within == RNorm(scrollTop - before.top, height)
      lineRange == before.endLine - before.startLine
  IN  RAdd(R(before.startLine), RMul(within, R(lineRange)))

\* lines 627-630: interpolation within the block before
InverseWithin(before, scrollTop) ==
  LET height == Max(1, before.bottom - before.top)
      within == RNorm(scrollTop - before.top, height)
      lineRange == before.endLine - before.startLine
  IN  RAdd(R(before.startLine), RMul(within, R(IF lineRange > 0 THEN lineRange ELSE 1)))

\* lines 634-637: interpolation across the gap between before and after
InverseGap(before, after, scrollTop) ==
  LET gapPixels == Max(1, after.top - before.bottom)
      gapLines == Max(1, after.startLine - before.endLine)
      within == RNorm(scrollTop - before.bottom, gapPixels)
  IN  RAdd(R(before.endLine), RMul(within, R(gapLines)))

\* targetLineFloat of lines 622-638
InverseLineFloat(ranges, scrollTop) ==
  LET byTop == SortByTop(ranges)
      ba == InverseBracket(byTop, scrollTop, 1, 1, Len(byTop))
      before == byTop[ba[1]]
      after == byTop[ba[2]]
      last_ == byTop[Len(byTop)]
      branch == InverseBranch(ranges, scrollTop)
  IN  CASE branch = "bottom" -> R(last_.endLine)
        [] branch = "within" -> InverseWithin(before, scrollTop)
        [] branch = "same" ->
             IF scrollTop < before.top THEN R(before.startLine) ELSE R(before.endLine)
        [] OTHER -> InverseGap(before, after, scrollTop)

\* the value assigned to textarea.scrollTop at line 604 or 640
InverseValue(ranges, metrics, srcTop, srcMax, dstMax) ==
  IF ranges = <<>>
  THEN PercentageScroll(srcTop, srcMax, dstMax)
  ELSE lineFloatToEditorScrollTop(metrics, InverseLineFloat(ranges, srcTop))

(***************************************************************************)
(* State of one NotePage.                                                  *)
(***************************************************************************)
VARIABLES
  viewMode,              \* useSettingsStore().viewMode
  mounted,               \* the NotePage component is mounted
  content,               \* the content state: the lines of the buffer
  width,                 \* textarea.clientWidth, in character columns
  taClientHeight,        \* textarea.clientHeight
  taScrollTop,           \* textarea.scrollTop
  blocks,                \* the block elements of the preview, in document order
  pvContentHeight,       \* height of the rendered content of the preview
  pvClientHeight,        \* preview.clientHeight
  pvScrollTop,           \* preview.scrollTop
  isScrollSyncing,       \* isScrollSyncing.current
  scrollSyncTimeoutRef,  \* scrollSyncTimeoutRef.current: 0 is null
  timers,                \* ids of the timeouts that are set and have not fired
  editorMetricsRef,      \* editorMetricsRef.current: <<>> is null
  editorMirrorRef,       \* editorMirrorRef.current: "null" or "div"
  bodyMirrors,           \* number of mirror elements attached to document.body
  pending,               \* the scroll event queued on each pane, if any
  last,                  \* what the last handler or timer callback did
  mirrorFails            \* the page rejects the write of line 445, which throws

vars == <<viewMode, mounted, content, width, taClientHeight, taScrollTop, blocks,
          pvContentHeight, pvClientHeight, pvScrollTop, isScrollSyncing,
          scrollSyncTimeoutRef, timers, editorMetricsRef, editorMirrorRef,
          bodyMirrors, pending, last, mirrorFails>>

docVars == <<content, width, taClientHeight, blocks, pvContentHeight, pvClientHeight,
            mirrorFails>>
lockVars == <<isScrollSyncing, scrollSyncTimeoutRef, timers>>
cacheVars == <<editorMetricsRef, editorMirrorRef, bodyMirrors>>

ViewModes == {"edit", "preview", "split"}

\* the refs are set while their element is rendered (lines 971 and 988)
TextareaMounted == mounted /\ viewMode # "preview"
PreviewMounted == mounted /\ viewMode # "edit"

taScrollHeight == EditorScrollHeight(content, width, taClientHeight)
pvScrollHeight == PreviewScrollHeight(pvContentHeight, pvClientHeight)
\* textarea.scrollHeight - textarea.clientHeight, and the preview's
taMax == taScrollHeight - taClientHeight
pvMax == pvScrollHeight - pvClientHeight

(***************************************************************************)
(* Scroll events.  A pane whose scroll offset changed has one scroll event *)
(* queued until the browser dispatches it; its kind says what moved the    *)
(* pane since the last dispatch: "echo" when only a write by a scroll      *)
(* handler did, "user" when the user scrolled, "layout" when a relayout    *)
(* clamped the offset.                                                     *)
(***************************************************************************)
NoEvents == [editor |-> "none", preview |-> "none"]

\* a write that queues a scroll event even when it leaves the offset as it was
AfterWrite_Always(queued, oldTop, newTop) ==
  IF queued = "none" THEN "echo" ELSE queued

\* the event queued on a pane after a handler wrote newTop over oldTop
AfterWrite(queued, oldTop, newTop) ==
  IF newTop = oldTop THEN queued
  ELSE IF queued = "none" THEN "echo" ELSE queued

\* the event queued on a pane after a relayout moved oldTop to newTop
AfterLayout(queued, oldTop, newTop) ==
  IF newTop = oldTop THEN queued
  ELSE IF queued \in {"none", "echo"} THEN "layout" ELSE queued

\* setTimeout returns an id that no timeout still set has; an id whose
\* timeout fired and that nothing refers to any more is as good as new
NumTimerIds == 3
NewTimerId(set, ref) ==
  CHOOSE i \in 1..NumTimerIds :
    /\ i \notin set /\ i # ref
    /\ \A j \in 1..(i - 1) : j \in set \/ j = ref

\* last: op is "handled" (the handler ran to its end), "dropped" (it returned
\* at once) or "unlock" (the timeout callback ran); pane and kind are the pane
\* and the kind of the scroll event dispatched, and armedBy is the pane whose
\* event armed the lock that is armed now ("none" once the callback ran);
\* built says that the run built new metrics (lines 416-464)
NoOp == [op |-> "none", pane |-> "none", kind |-> "none", armedBy |-> "none",
         built |-> FALSE]

(***************************************************************************)
(* The scroll handlers.  An action is the browser dispatching the queued   *)
(* scroll event of a pane and the whole run of its onScroll handler.       *)
(***************************************************************************)
\* line 525 without the test of the lock
EditorReturnsEarly_NoLock == viewMode # "split"
\* line 525: the handler returns at once
EditorReturnsEarly == viewMode # "split" \/ isScrollSyncing
\* line 587 without the test of the lock
PreviewReturnsEarly_NoLock == viewMode # "split"
\* line 587 testing for the mode named after the pane
PreviewReturnsEarly_WrongMode == viewMode # "preview" \/ isScrollSyncing
\* line 587
PreviewReturnsEarly == viewMode # "split" \/ isScrollSyncing
\* lines 529 and 591
RefMissing == ~TextareaMounted \/ ~PreviewMounted

\* a handler that returns early on the lock alone
EditorSkips_LockOnly == isScrollSyncing
\* lines 525-529: the handler of the textarea returns before it touches
\* anything
EditorSkips == EditorReturnsEarly \/ RefMissing
\* lines 587-591: the same for the handler of the preview
PreviewSkips == PreviewReturnsEarly \/ RefMissing

\* the timeout is cleared and none is set
TimersAfterArm_NoTimeout == timers \ {scrollSyncTimeoutRef}
\* lines 532-534 and 580-582 (593-595 and 643-645): the timeout the ref names
\* is cleared and a new one is set
TimersAfterArm == (timers \ {scrollSyncTimeoutRef}) \cup {NewTimerId(timers \ {scrollSyncTimeoutRef}, scrollSyncTimeoutRef)}
Arm ==
  /\ isScrollSyncing' = TRUE
  /\ timers' = TimersAfterArm
  /\ scrollSyncTimeoutRef' = NewTimerId(timers \ {scrollSyncTimeoutRef}, scrollSyncTimeoutRef)

\* a cache test that never succeeds
CacheHit_Never == FALSE
\* the effect of a call of ensureEditorMetrics on the cache and the mirror
\* (lines 413-422 and 464)
CacheHit ==
  /\ editorMetricsRef # <<>>
  /\ editorMetricsRef[1].content = content
  /\ editorMetricsRef[1].width = width
EnsureMetrics ==
  /\ editorMetricsRef' = <<EnsureEditorMetrics(editorMetricsRef, content, width)>>
  /\ editorMirrorRef' = IF CacheHit THEN editorMirrorRef ELSE "div"
  /\ bodyMirrors' = IF ~CacheHit /\ editorMirrorRef = "null"
                    THEN bodyMirrors + 1 ELSE bodyMirrors

\* ensureEditorMetrics gets past the cache test and the write of line 445
\* throws: the exception leaves the handler
MirrorThrows == mirrorFails /\ ~CacheHit

\* a handler run that ends in that exception: the lock was set (536, 597) after
\* the timeout was cleared, the mirror was created and attached (418-421), and
\* neither the scroll write nor setTimeout is reached
Throws(pane) ==
  /\ isScrollSyncing' = TRUE
  /\ timers' = timers \ {scrollSyncTimeoutRef}
  /\ editorMirrorRef' = "div"
  /\ bodyMirrors' = IF editorMirrorRef = "null" THEN bodyMirrors + 1 ELSE bodyMirrors
  /\ UNCHANGED <<scrollSyncTimeoutRef, editorMetricsRef, taScrollTop, pvScrollTop>>
  /\ pending' = [pending EXCEPT ![pane] = "none"]
  /\ last' = [op |-> "threw", pane |-> pane, kind |-> pending[pane], armedBy |-> pane,
              built |-> FALSE]

\* Editor scroll -> Preview scroll (lines 524-583)
handleEditorScroll ==
  /\ TextareaMounted
  /\ pending.editor # "none"
  /\ UNCHANGED <<viewMode, mounted, docVars>>
  /\ IF EditorSkips
     THEN /\ pending' = [pending EXCEPT !.editor = "none"]
          /\ last' = [op |-> "dropped", pane |-> "editor", kind |-> pending.editor,
                      armedBy |-> last.armedBy, built |-> FALSE]
          /\ UNCHANGED <<taScrollTop, pvScrollTop, lockVars, cacheVars>>
     ELSE LET ranges == getPreviewBlockRanges(blocks, pvScrollTop)
              metrics == EnsureEditorMetrics(editorMetricsRef, content, width)
              value == ForwardValue(ranges, metrics, taScrollTop, taMax, pvMax)
              written == SetScrollTop(value, pvScrollHeight, pvClientHeight)
          IN  IF ranges # <<>> /\ MirrorThrows
              THEN Throws("editor")
              ELSE /\ Arm
                   /\ IF ranges = <<>> THEN UNCHANGED cacheVars ELSE EnsureMetrics
                   /\ pvScrollTop' = written
                   /\ UNCHANGED taScrollTop
                   /\ pending' = [editor |-> "none",
                                  preview |-> AfterWrite(pending.preview, pvScrollTop, written)]
                   /\ last' = [op |-> "handled", pane |-> "editor",
                               kind |-> pending.editor, armedBy |-> "editor",
                               built |-> (ranges # <<>> /\ ~CacheHit)]

\* Preview scroll -> Editor scroll (lines 586-646)
handlePreviewScroll ==
  /\ PreviewMounted
  /\ pending.preview # "none"
  /\ UNCHANGED <<viewMode, mounted, docVars>>
  /\ IF PreviewSkips
     THEN /\ pending' = [pending EXCEPT !.preview = "none"]
          /\ last' = [op |-> "dropped", pane |-> "preview", kind |-> pending.preview,
                      armedBy |-> last.armedBy, built |-> FALSE]
          /\ UNCHANGED <<taScrollTop, pvScrollTop, lockVars, cacheVars>>
     ELSE LET ranges == getPreviewBlockRanges(blocks, pvScrollTop)
              metrics == EnsureEditorMetrics(editorMetricsRef, content, width)
              value == InverseValue(ranges, metrics, pvScrollTop, pvMax, taMax)
              written == SetScrollTop(value, taScrollHeight, taClientHeight)
          IN  IF ranges # <<>> /\ MirrorThrows
              THEN Throws("preview")
              ELSE /\ Arm
                   /\ IF ranges = <<>> THEN UNCHANGED cacheVars ELSE EnsureMetrics
                   /\ taScrollTop' = written
                   /\ UNCHANGED pvScrollTop
                   /\ pending' = [editor |-> AfterWrite(pending.editor, taScrollTop, written),
                                  preview |-> "none"]
                   /\ last' = [op |-> "handled", pane |-> "preview",
                               kind |-> pending.preview, armedBy |-> "preview",
                               built |-> (ranges # <<>> /\ ~CacheHit)]

\* a callback that leaves the lock as it is
UnlockTimer_KeepsLock ==
  /\ \E id \in timers : timers' = timers \ {id}
  /\ last' = [NoOp EXCEPT !.op = "unlock"]
  /\ UNCHANGED <<viewMode, mounted, docVars, taScrollTop, pvScrollTop,
                 isScrollSyncing, scrollSyncTimeoutRef, cacheVars, pending>>

\* the callback of the timeout set at line 580 or 643
UnlockTimer ==
  /\ \E id \in timers : timers' = timers \ {id}
  /\ isScrollSyncing' = FALSE
  /\ last' = [NoOp EXCEPT !.op = "unlock"]
  /\ UNCHANGED <<viewMode, mounted, docVars, taScrollTop, pvScrollTop,
                 scrollSyncTimeoutRef, cacheVars, pending>>

(***************************************************************************)
(* The environment: the user and the browser.                              *)
(***************************************************************************)
\* granularity of the user's scroll positions, in px
ScrollStep == 20
UserOffsets(max) == {k * ScrollStep : k \in 0..(max \div ScrollStep)} \cup {max}

\* the user scrolls the textarea (wheel, scrollbar, keyboard)
UserScrollEditor ==
  /\ TextareaMounted
  /\ \E y \in UserOffsets(taMax) :
       /\ y # taScrollTop
       /\ taScrollTop' = y
  /\ pending' = [pending EXCEPT !.editor = "user"]
  /\ UNCHANGED <<viewMode, mounted, docVars, pvScrollTop, lockVars, cacheVars, last>>

\* the user scrolls the preview
UserScrollPreview ==
  /\ PreviewMounted
  /\ \E y \in UserOffsets(pvMax) :
       /\ y # pvScrollTop
       /\ pvScrollTop' = y
  /\ pending' = [pending EXCEPT !.preview = "user"]
  /\ UNCHANGED <<viewMode, mounted, docVars, taScrollTop, lockVars, cacheVars, last>>

\* setViewMode (lines 800, 811, 822): a pane that is no longer rendered is
\* removed with its queued event, and a pane rendered again starts at the top
setViewMode(mode) ==
  /\ mounted
  /\ mode # viewMode
  /\ viewMode' = mode
  /\ taScrollTop' = IF mode = "preview" THEN 0 ELSE taScrollTop
  /\ pvScrollTop' = IF mode = "edit" THEN 0 ELSE pvScrollTop
  /\ pending' = [editor |-> IF mode = "preview" THEN "none" ELSE pending.editor,
                 preview |-> IF mode = "edit" THEN "none" ELSE pending.preview]
  /\ UNCHANGED <<mounted, docVars, lockVars, cacheVars, last>>

\* an unmount effect that only clears the two refs
Unmount_KeepsMirror ==
  /\ mounted
  /\ mounted' = FALSE
  /\ editorMirrorRef' = "null"
  /\ editorMetricsRef' = <<>>
  /\ pending' = NoEvents
  /\ UNCHANGED <<viewMode, docVars, taScrollTop, pvScrollTop, lockVars, last,
                 bodyMirrors>>

\* the unmount effect (lines 338-344); the timeout is not cleared
Unmount ==
  /\ mounted
  /\ mounted' = FALSE
  /\ editorMirrorRef' = "null"
  /\ bodyMirrors' = IF editorMirrorRef = "div" THEN bodyMirrors - 1 ELSE bodyMirrors
  /\ editorMetricsRef' = <<>>
  /\ pending' = NoEvents
  /\ UNCHANGED <<viewMode, docVars, taScrollTop, pvScrollTop, lockVars, last>>

\* the offset of a pane after a relayout changed its scrollable range
Relaid(top, scrollHeight, clientHeight) ==
  Max(0, Min(top, scrollHeight - clientHeight))

\* setContent (line 976, and the edits of handleTextareaKeyDown): the buffer
\* is replaced by another document, the preview renders its blocks, and the
\* browser lays both panes out again
setContent(doc) ==
  /\ TextareaMounted
  /\ <<doc.content, doc.blocks>> # <<content, blocks>>
  /\ content' = doc.content
  /\ blocks' = doc.blocks
  /\ pvContentHeight' = doc.height
  /\ taScrollTop' = Relaid(taScrollTop,
                           EditorScrollHeight(doc.content, width, taClientHeight),
                           taClientHeight)
  /\ pvScrollTop' = Relaid(pvScrollTop,
                           PreviewScrollHeight(doc.height, pvClientHeight),
                           pvClientHeight)
  /\ pending' = [editor |-> AfterLayout(pending.editor, taScrollTop, taScrollTop'),
                 preview |-> AfterLayout(pending.preview, pvScrollTop, pvScrollTop')]
  /\ UNCHANGED <<viewMode, mounted, width, taClientHeight, pvClientHeight,
                 lockVars, cacheVars, last, mirrorFails>>

\* the window is resized: the textarea gets another width and wraps again
Resize(w) ==
  /\ TextareaMounted
  /\ w # width
  /\ width' = w
  /\ taScrollTop' = Relaid(taScrollTop,
                           EditorScrollHeight(content, w, taClientHeight),
                           taClientHeight)
  /\ pending' = [pending EXCEPT
                   !.editor = AfterLayout(pending.editor, taScrollTop, taScrollTop')]
  /\ UNCHANGED <<viewMode, mounted, content, taClientHeight, blocks, pvContentHeight,
                 pvClientHeight, pvScrollTop, lockVars, cacheVars, last, mirrorFails>>

(***************************************************************************)
(* Documents and sessions.                                                 *)
(***************************************************************************)
Block(s, e, y, h) == [startAttr |-> s, endAttr |-> e, y |-> y, h |-> h]

\* two paragraphs of two lines with a blank line between them
DocGap ==
  [content |-> <<3, 3, 0, 3, 3>>,
   blocks |-> <<Block(1, 2, 0, 40), Block(4, 5, 60, 40)>>,
   height |-> 100]

\* blank lines only: the preview renders no block
DocBlank ==
  [content |-> <<0, 0, 0, 0, 0, 0>>, blocks |-> <<>>, height |-> 0]

SessionDocs == {DocGap, DocBlank}
\* pane widths in character columns: a line of 3 characters wraps at width 2
Widths == {2, 4}
\* viewport heights of the two panes
ViewportHeight == 72

InitWith(doc, w, taH, pvH, mode, taTop, pvTop, events) ==
  /\ viewMode = mode
  /\ mounted = TRUE
  /\ content = doc.content
  /\ width = w
  /\ taClientHeight = taH
  /\ taScrollTop = taTop
  /\ blocks = doc.blocks
  /\ pvContentHeight = doc.height
  /\ pvClientHeight = pvH
  /\ pvScrollTop = pvTop
  /\ isScrollSyncing = FALSE
  /\ scrollSyncTimeoutRef = 0
  /\ timers = {}
  /\ editorMetricsRef = <<>>
  /\ editorMirrorRef = "null"
  /\ bodyMirrors = 0
  /\ pending = events
  /\ last = NoOp

Init ==
  /\ mirrorFails = FALSE
  /\ \E doc \in SessionDocs, mode \in ViewModes :
       InitWith(doc, 4, ViewportHeight, ViewportHeight, mode, 0, 0, NoEvents)

Next ==
  \/ handleEditorScroll
  \/ handlePreviewScroll
  \/ UnlockTimer
  \/ UserScrollEditor
  \/ UserScrollPreview
  \/ \E mode \in ViewModes : setViewMode(mode)
  \/ \E doc \in SessionDocs : setContent(doc)
  \/ \E w \in Widths : Resize(w)
  \/ Unmount

Spec == Init /\ [][Next]_vars

(***************************************************************************)
(* The mappers on many documents: a session in split view in which the     *)
(* user has just scrolled one pane, followed by the handlers and the timer *)
(* alone.                                                                  *)
(***************************************************************************)
MaxLines == 4
\* buffers of up to MaxLines lines of 3 characters, the first one possibly of
\* 6 characters (two rows at width 4)
MapContents ==
  {[i \in 1..n |-> IF i = long THEN 6 ELSE 3] : n \in 1..MaxLines, long \in 0..1}

\* heights of a rendered block, and vertical margins between two blocks
BlockHeights == {0, 20, 50}
BlockGaps == {0, 16}

\* one annotated block
OneBlock(n) ==
  {<<Block(s, e, 0, h)>> : s \in 1..n, e \in 1..n, h \in BlockHeights \ {0}}

\* two annotated blocks one after the other, the second starting on a later
\* line than the first ends
TwoBlocks(n) ==
  {<<Block(b[1], b[2], 0, b[5]), Block(b[3], b[4], b[5] + b[7], b[6])>> :
     b \in {c \in (1..n) \X (1..n) \X (1..n) \X (1..n) \X BlockHeights
                   \X BlockHeights \X BlockGaps :
              c[1] <= c[2] /\ c[2] < c[3] /\ c[3] <= c[4]}}

\* an annotated block that contains another one (a paragraph in a quote)
NestedBlocks(n) ==
  {<<Block(s, e, 0, 50), Block(s, e2, 0, 20)>> : s \in 1..n, e \in 1..n, e2 \in 1..n}

\* an element without line attributes before an annotated block
UnannotatedFirst(n) ==
  {<<Block(0, 0, 0, 20), Block(s, e, 20, 50)>> : s \in 1..n, e \in 1..n}

\* a paragraph followed by the footnote section, whose paragraph carries the
\* line of the footnote definition, earlier in the buffer
FootnoteLast(n) ==
  {<<Block(b, b, 0, 20), Block(a, a, 20 + g, 20)>> :
     a \in 1..n, b \in 1..n, g \in BlockGaps} \ OneBlock(n)

BlockLists(n) ==
  {<<>>} \cup OneBlock(n) \cup TwoBlocks(n) \cup NestedBlocks(n) \cup UnannotatedFirst(n)
    \cup FootnoteLast(n)

\* bottom edge of the lowest block
RECURSIVE BlocksBottom(_)
BlocksBottom(els) ==
  IF els = <<>> THEN 0 ELSE Max(Head(els).y + Head(els).h, BlocksBottom(Tail(els)))

\* a buffer of ten lines rendered as one block of 200px
DocTen ==
  [content |-> <<3, 3, 3, 3, 3, 3, 3, 3, 3, 3>>,
   blocks |-> <<Block(1, 10, 0, 200)>>,
   height |-> 200]

\* an HTML block of four lines: the preview shows it as text, in no element
\* with line attributes
DocRaw ==
  [content |-> <<3, 3, 3, 3>>, blocks |-> <<Block(0, 0, 0, 120)>>, height |-> 120]

\* the documents of one buffer
DocsOf(c) ==
  {[content |-> c, blocks |-> bl, height |-> BlocksBottom(bl)] :
     bl \in BlockLists(Len(c))}

MapDocs == {DocTen, DocGap, DocBlank, DocRaw} \cup UNION {DocsOf(c) : c \in MapContents}

\* viewport heights of the panes of a mapped session
MapViewports == {52, 72}
\* the scroll positions of a pane whose scrollable range is max
MapStep == 10
MapOffsets(max) == {k * MapStep : k \in 0..(max \div MapStep)} \cup {max}

\* textarea.scrollHeight - textarea.clientHeight of a document
DocTaMax(doc, w, taH) == EditorScrollHeight(doc.content, w, taH) - taH
\* preview.scrollHeight - preview.clientHeight of a document
DocPvMax(doc, pvH) == PreviewScrollHeight(doc.height, pvH) - pvH

MapInit ==
  /\ mirrorFails = FALSE
  /\ \E doc \in MapDocs, taH \in MapViewports, pvH \in MapViewports :
    \/ \E x \in MapOffsets(DocTaMax(doc, 4, taH)) \ {0} :
         InitWith(doc, 4, taH, pvH, "split", x, 0,
                  [editor |-> "user", preview |-> "none"])
    \/ \E y \in MapOffsets(DocPvMax(doc, pvH)) \ {0} :
         InitWith(doc, 4, taH, pvH, "split", 0, y,
                  [editor |-> "none", preview |-> "user"])

MapNext ==
  \/ handleEditorScroll
  \/ handlePreviewScroll
  \/ UnlockTimer

MapSpec == MapInit /\ [][MapNext]_vars

\* the timeout callback is a macrotask of the event loop: once set and not
\* cleared it runs
FairSpec == Spec /\ WF_vars(UnlockTimer)

\* the browser dispatches the scroll event queued on a mounted pane (onScroll
\* bindings, lines 979 and 992): weak fairness of the handler, written with
\* the handler's guard in the place of ENABLED
EditorDispatched ==
  \/ []<>(~(TextareaMounted /\ pending.editor # "none"))
  \/ []<><<handleEditorScroll>>_vars
PreviewDispatched ==
  \/ []<>(~(PreviewMounted /\ pending.preview # "none"))
  \/ []<><<handlePreviewScroll>>_vars

\* a mapped session in which the browser dispatches every queued scroll event
\* and runs every timeout callback
MapFairSpec ==
  /\ MapSpec
  /\ EditorDispatched
  /\ PreviewDispatched
  /\ WF_vars(UnlockTimer)

\* a session in split view in which the user scrolls the textarea only
EditorUserInit ==
  /\ mirrorFails = FALSE
  /\ \E doc \in SessionDocs \cup {DocTen} :
       InitWith(doc, 4, ViewportHeight, ViewportHeight, "split", 0, 0, NoEvents)

EditorUserNext ==
  \/ UserScrollEditor
  \/ handleEditorScroll
  \/ handlePreviewScroll
  \/ UnlockTimer

EditorUserSpec == EditorUserInit /\ [][EditorUserNext]_vars

\* a session in split view in which the buffer is edited between two
\* documents that both render blocks, the window is resized and the textarea
\* is scrolled; the preview scrolls by the handlers' writes
\* a heading, a blank line and a paragraph of two lines
DocList ==
  [content |-> <<3, 0, 3, 3>>,
   blocks |-> <<Block(1, 1, 0, 50), Block(3, 4, 66, 40)>>,
   height |-> 106]

EditDocs == {DocGap, DocList}

EditInit ==
  /\ mirrorFails = FALSE
  /\ InitWith(DocGap, 4, ViewportHeight, ViewportHeight, "split", 0, 0, NoEvents)

EditNext ==
  \/ handleEditorScroll
  \/ handlePreviewScroll
  \/ UnlockTimer
  \/ UserScrollEditor
  \/ \E doc \in EditDocs : setContent(doc)
  \/ \E w \in Widths : Resize(w)

EditSpec == EditInit /\ [][EditNext]_vars

\* a session on a page that rejects the write of line 445
FailInit ==
  /\ mirrorFails = TRUE
  /\ \E doc \in SessionDocs, mode \in ViewModes :
       InitWith(doc, 4, ViewportHeight, ViewportHeight, mode, 0, 0, NoEvents)

FailSpec == FailInit /\ [][Next]_vars

(***************************************************************************)
(* The sync coordinator (claims C1-C6).                                    *)
(***************************************************************************)
\* a step that dispatches a scroll event to the handler of either pane
HandlerStep == handleEditorScroll \/ handlePreviewScroll

\* C1: while isScrollSyncing is true, a scroll event dispatched to either
\* handler is dropped: neither pane's offset is written, the lock stays armed,
\* and the pending timeout is neither cleared nor set again.
C1_LockedEventDropped ==
  [][(isScrollSyncing /\ HandlerStep) =>
       /\ UNCHANGED <<taScrollTop, pvScrollTop>>
       /\ isScrollSyncing'
       /\ UNCHANGED <<timers, scrollSyncTimeoutRef>>]_vars

\* an event was dispatched in split view while the lock was armed, and dropped
C1_Witness ==
  /\ last.op = "dropped"
  /\ last.armedBy # "none"
  /\ isScrollSyncing
  /\ viewMode = "split"

\* C2: a scroll event that exists only because a handler wrote the pane's
\* offset is never handled, whichever of the event and the timeout callback
\* comes first.
C2_EchoNeverHandled == last.kind = "echo" => last.op # "handled"

\* C3: an armed lock is released by and by, with nothing but the timeout
\* callback having to run.
C3_LockReleased == isScrollSyncing ~> ~isScrollSyncing

\* the timeout callback released a lock
C3_Witness == last.op = "unlock" /\ ~isScrollSyncing /\ timers = {}

\* C4: with the lock released, in split view with both panes mounted, a
\* dispatched scroll event is handled: the other pane gets the mapper's value
\* and the lock is armed with a timeout pending.
C4_IdleEventHandled ==
  [][(~isScrollSyncing /\ viewMode = "split" /\ TextareaMounted /\ PreviewMounted) =>
       /\ handleEditorScroll =>
            /\ last'.op = "handled" /\ last'.pane = "editor"
            /\ pvScrollTop' = SetScrollTop(
                 ForwardValue(getPreviewBlockRanges(blocks, pvScrollTop),
                              BuildMetrics(content, width), taScrollTop, taMax, pvMax),
                 pvScrollHeight, pvClientHeight)
            /\ isScrollSyncing' /\ scrollSyncTimeoutRef' \in timers'
       /\ handlePreviewScroll =>
            /\ last'.op = "handled" /\ last'.pane = "preview"
            /\ taScrollTop' = SetScrollTop(
                 InverseValue(getPreviewBlockRanges(blocks, pvScrollTop),
                              BuildMetrics(content, width), pvScrollTop, pvMax, taMax),
                 taScrollHeight, taClientHeight)
            /\ isScrollSyncing' /\ scrollSyncTimeoutRef' \in timers']_vars

\* a second sync cycle: the timeout of the first one fired (its id is the
\* first one handed out) and a user's scroll of the preview was handled
C4_Witness ==
  /\ last.op = "handled" /\ last.pane = "preview" /\ last.kind = "user"
  /\ scrollSyncTimeoutRef = 2
  /\ isScrollSyncing

\* C5: in the window of an armed lock no offset is written: an event
\* dispatched then is removed from the queue with nothing kept of it, and
\* the timeout callback that releases the lock writes no offset and queues
\* no event.
C5_DroppedNotBuffered ==
  [][isScrollSyncing =>
       /\ handleEditorScroll =>
            /\ UNCHANGED <<taScrollTop, pvScrollTop>>
            /\ pending' = [pending EXCEPT !.editor = "none"]
       /\ handlePreviewScroll =>
            /\ UNCHANGED <<taScrollTop, pvScrollTop>>
            /\ pending' = [pending EXCEPT !.preview = "none"]
       /\ UnlockTimer => UNCHANGED <<taScrollTop, pvScrollTop, pending>>]_vars

\* the user scrolled the preview inside the window armed by an event of the
\* editor, and that event was dropped
C5_Witness ==
  /\ last.op = "dropped" /\ last.pane = "preview" /\ last.kind = "user"
  /\ last.armedBy = "editor"
  /\ isScrollSyncing /\ viewMode = "split"
  /\ pending = NoEvents

\* C6: a handled event of the editor writes the preview's offset only, a
\* handled event of the preview the editor's only; the source pane's offset,
\* the buffer and the block ranges are as before.
C6_HandlerFrame ==
  [][(HandlerStep /\ last'.op = "handled") =>
       /\ last'.pane = "editor" => taScrollTop' = taScrollTop
       /\ last'.pane = "preview" => pvScrollTop' = pvScrollTop
       /\ content' = content
       /\ getPreviewBlockRanges(blocks', pvScrollTop')
            = getPreviewBlockRanges(blocks, pvScrollTop)]_vars

\* a handled event of the editor moved the preview
C6_Witness ==
  /\ last.op = "handled" /\ last.pane = "editor"
  /\ pending.preview = "echo"
  /\ pvScrollTop # 0

(***************************************************************************)
(* The mappers (claims C7-C10), on the sessions of MapSpec.                *)
(***************************************************************************)
\* the block ranges, the line metrics and the top line of the current state
Ranges == getPreviewBlockRanges(blocks, pvScrollTop)
Metrics == BuildMetrics(content, width)
TopLine == getEditorTopLine(Metrics, taScrollTop)

\* a step in which the handler of the editor (of the preview) ran to its end
EditorHandled == handleEditorScroll /\ last'.op = "handled"
PreviewHandled == handlePreviewScroll /\ last'.op = "handled"

\* C7: with a non-empty range list, a handled scroll of the editor at its
\* maximum offset writes the preview's maximum offset, and a handled scroll of
\* the preview at its maximum offset writes the editor's maximum offset.
C7_BoundaryPinning ==
  [][Ranges # <<>> =>
       /\ (EditorHandled /\ taScrollTop = taMax) => pvScrollTop' = pvMax
       /\ (PreviewHandled /\ pvScrollTop = pvMax) => taScrollTop' = taMax]_vars

\* the greatest height of a line of the buffer
RECURSIVE MaxOfSeq(_)
MaxOfSeq(q) == IF q = <<>> THEN 0 ELSE Max(Head(q), MaxOfSeq(Tail(q)))
MaxLineHeight == MaxOfSeq(MeasureHeights(content, width))

\* the offset the forward mapper writes to the preview for the editor's
\* current offset
ForwardImage ==
  SetScrollTop(ForwardValue(Ranges, Metrics, taScrollTop, taMax, pvMax),
               pvScrollHeight, pvClientHeight)

\* C8: with a non-empty range list, when the preview stands where the forward
\* mapper puts it for the editor's offset x, the inverse mapper writes an
\* editor offset within one line height of x.
C8_RoundTrip ==
  [][(PreviewHandled /\ Ranges # <<>> /\ pvScrollTop = ForwardImage) =>
       Abs(taScrollTop' - taScrollTop) <= MaxLineHeight]_vars

\* C9: for the single range {1, 10, 0, 200} and ten lines of one height, a
\* handled scroll of the editor at the top of line 5 writes 80.
C9_WithinBlockExample ==
  [][(EditorHandled /\ content = DocTen.content /\ blocks = DocTen.blocks
        /\ TopLine.lineFloat = R(5)) =>
       pvScrollTop' = 80]_vars

\* the last range whose startLine is <= lineFloat (else the first range) and
\* the first range whose startLine is >= lineFloat (else the last one)
RangeBefore(ranges, lineFloat) ==
  LET S == {i \in 1..Len(ranges) : RLe(R(ranges[i].startLine), lineFloat)}
  IN  IF S = {} THEN 1 ELSE CHOOSE i \in S : \A j \in S : j <= i
RangeAfter(ranges, lineFloat) ==
  LET S == {i \in 1..Len(ranges) : RLe(lineFloat, R(ranges[i].startLine))}
  IN  IF S = {} THEN Len(ranges) ELSE CHOOSE i \in S : \A j \in S : i <= j

\* lineFloat is below the last range's endLine, outside the range before it,
\* and the ranges before and after it are two
InGap(ranges, lineFloat) ==
  LET before == ranges[RangeBefore(ranges, lineFloat)]
  IN  /\ RLt(lineFloat, R(ranges[Len(ranges)].endLine))
      /\ ~(RLe(R(before.startLine), lineFloat) /\ RLe(lineFloat, R(before.endLine)))
      /\ RangeBefore(ranges, lineFloat) # RangeAfter(ranges, lineFloat)

\* before.bottom + ((lineFloat - before.endLine)
\*                  / max(1, after.startLine - before.endLine))
\*               * (after.top - before.bottom)
GapTarget(ranges, lineFloat) ==
  LET before == ranges[RangeBefore(ranges, lineFloat)]
      after == ranges[RangeAfter(ranges, lineFloat)]
  IN  RAdd(R(before.bottom),
           RMul(RDiv(RSub(lineFloat, R(before.endLine)),
                     R(Max(1, after.startLine - before.endLine))),
                R(after.top - before.bottom)))

\* C10: when lineFloat lies in a gap between two bracketing ranges, the
\* forward mapper assigns the gap interpolation (floored at 0, and snapped and
\* clamped by the setter); for the ranges [1-2]@[0,40] and [4-5]@[60,100] a
\* lineFloat of 3 gives 50.
C10_GapInterpolation ==
  [][(EditorHandled /\ Ranges # <<>>) =>
       /\ InGap(Ranges, TopLine.lineFloat) =>
            pvScrollTop' = SetScrollTop(RMax(R(0), GapTarget(Ranges, TopLine.lineFloat)),
                                        pvScrollHeight, pvClientHeight)
       /\ (blocks = DocGap.blocks /\ Metrics.lineTops = <<0, 20, 40, 60, 80>>
            /\ TopLine.lineFloat = R(3)) =>
            pvScrollTop' = 50]_vars

\* the editor of the two-paragraph document was scrolled to the top of line
\* 3, its handler ran, and the preview stands at 50
C10_Witness ==
  /\ last.op = "handled" /\ last.pane = "editor"
  /\ blocks = DocGap.blocks /\ content = DocGap.content
  /\ TopLine.lineFloat = R(3)
  /\ InGap(Ranges, TopLine.lineFloat)
  /\ pvScrollTop = 50

(***************************************************************************)
(* The fallback and the measurement surface (claims C11, C12).             *)
(***************************************************************************)
\* written is s / max(1, srcMax) * dstMax, to the nearest pixel
NearestToShare(written, s, srcMax, dstMax) ==
  2 * Abs(written * Max(1, srcMax) - s * dstMax) <= Max(1, srcMax)

\* C11: with an empty range list a handled scroll of a pane at offset s writes
\* (s / max(1, source range)) * (target range) to the other pane, to the
\* nearest pixel; a source at half of its range puts the target at half of
\* its range, to the nearest pixel.
C11_Fallback ==
  [][Ranges = <<>> =>
       /\ EditorHandled =>
            /\ NearestToShare(pvScrollTop', taScrollTop, taMax, pvMax)
            /\ 2 * taScrollTop = taMax => Abs(2 * pvScrollTop' - pvMax) <= 1
       /\ PreviewHandled =>
            /\ NearestToShare(taScrollTop', pvScrollTop, pvMax, taMax)
            /\ 2 * pvScrollTop = pvMax => Abs(2 * taScrollTop' - taMax) <= 1]_vars

\* the editor of a document without ranges was scrolled to half of its range
\* and the preview, whose range is another one, stands at half of its own
C11_Witness ==
  /\ last.op = "handled" /\ last.pane = "editor"
  /\ Ranges = <<>>
  /\ taMax > 0 /\ pvMax > 0 /\ taMax # pvMax
  /\ 2 * taScrollTop = taMax
  /\ 2 * pvScrollTop = pvMax

\* C12: when the measurement mirror cannot be written, no handler run ends in
\* an exception, and a set lock has its timeout pending.
C12_MeasurementFailureRecovered ==
  mirrorFails =>
    /\ last.op # "threw"
    /\ isScrollSyncing => scrollSyncTimeoutRef \in timers

(***************************************************************************)
(* The extractor and the metrics builder (claims C13, C14).                *)
(***************************************************************************)
\* C13: in the list of getPreviewBlockRanges every range ends on a line
\* before the line its successor starts on.
C13_RangesDisjoint ==
  \A i \in 1..(Len(Ranges) - 1) : Ranges[i].endLine < Ranges[i + 1].startLine

C15_PinToBottom ==
  [][(EditorHandled /\ Ranges # <<>>
        /\ RLe(R(Ranges[Len(Ranges)].endLine), TopLine.lineFloat)) =>
       pvScrollTop' = pvMax]_vars

\* the editor stands on the line the last range ends on, below its maximum
\* offset, and the preview was put at its maximum
C15_Witness ==
  /\ last.op = "handled" /\ last.pane = "editor"
  /\ Ranges # <<>>
  /\ TopLine.lineFloat = R(Ranges[Len(Ranges)].endLine)
  /\ taScrollTop < taMax
  /\ pvMax > 0 /\ pvScrollTop = pvMax

\* lineFloat is below the last range's endLine and inside the range before it
InWithin(ranges, lineFloat) ==
  LET before == ranges[RangeBefore(ranges, lineFloat)]
  IN  /\ RLt(lineFloat, R(ranges[Len(ranges)].endLine))
      /\ RLe(R(before.startLine), lineFloat)
      /\ RLe(lineFloat, R(before.endLine))

\* before.top + f * (before.bottom - before.top), with
\* f = (lineFloat - before.startLine) / max(1, before.endLine - before.startLine)
\* clamped to [0, 1]
WithinTarget(ranges, lineFloat) ==
  LET before == ranges[RangeBefore(ranges, lineFloat)]
      f == RDiv(RSub(lineFloat, R(before.startLine)),
                R(Max(1, before.endLine - before.startLine)))
  IN  RAdd(R(before.top),
           RMul(RMin(R(1), RMax(R(0), f)), R(before.bottom - before.top)))

\* C16: when lineFloat is below last.endLine and inside the range before it,
\* a handled scroll of the editor writes before.top + f * (before.bottom -
\* before.top), for blocks of one line and blocks of height zero too.
C16_WithinBlock ==
  [][(EditorHandled /\ Ranges # <<>> /\ InWithin(Ranges, TopLine.lineFloat)) =>
       pvScrollTop' = SetScrollTop(RMax(R(0), WithinTarget(Ranges, TopLine.lineFloat)),
                                   pvScrollHeight, pvClientHeight)]_vars

GreatestLineAt(m, y) ==
  LET S == {i \in 1..Len(m.lineTops) : m.lineTops[i] <= y}
  IN  CHOOSE i \in S : \A j \in S : j <= i

\* C18: getEditorTopLine returns index + progress, index being the greatest
\* line whose top is <= the offset and progress the part of that line's height
\* above the offset, clamped to [0, 1]; lineFloat is in [1, N + 1].
C18_TopLine ==
  LET index == GreatestLineAt(Metrics, taScrollTop)
      raw == RNorm(taScrollTop - Metrics.lineTops[index], Metrics.lineHeights[index])
      progress == IF RLt(raw, R(0)) THEN R(0) ELSE IF RLt(R(1), raw) THEN R(1) ELSE raw
  IN  /\ TopLine.line = index
      /\ TopLine.progress = progress
      /\ TopLine.lineFloat = RAdd(R(index), progress)
      /\ RLe(R(1), TopLine.lineFloat)
      /\ RLe(TopLine.lineFloat, R(Len(Metrics.lineTops) + 1))

\* the handler of the editor ran with the editor's top edge inside a line
\* after the first
C18_Witness ==
  /\ last.op = "handled" /\ last.pane = "editor"
  /\ Ranges # <<>>
  /\ TopLine.line > 1
  /\ RLt(R(0), TopLine.progress) /\ RLt(TopLine.progress, R(1))

(***************************************************************************)
(* The inverse mapper (claims C19, C20).                                   *)
(***************************************************************************)
\* the last and the first range by pixel position: the greatest (least) top,
\* and among ranges of one top the last (first) of the list
LastByTop(ranges) ==
  CHOOSE i \in 1..Len(ranges) :
    \A j \in 1..Len(ranges) :
      ranges[j].top < ranges[i].top \/ (ranges[j].top = ranges[i].top /\ j <= i)
FirstByTop(ranges) ==
  CHOOSE i \in 1..Len(ranges) :
    \A j \in 1..Len(ranges) :
      ranges[i].top < ranges[j].top \/ (ranges[j].top = ranges[i].top /\ i <= j)

\* the offset the textarea is given for a lineFloat
EditorOffsetOf(lineFloat) ==
  SetScrollTop(lineFloatToEditorScrollTop(Metrics, lineFloat),
               taScrollHeight, taClientHeight)

\* C19: with a non-empty range list, a preview offset at or beyond the bottom
\* of the last block by pixel position is mapped to that block's endLine, and
\* a preview offset above the top of the first block to that block's
\* startLine.
C19_InversePins ==
  [][(PreviewHandled /\ Ranges # <<>>) =>
       LET last_ == Ranges[LastByTop(Ranges)]
           first == Ranges[FirstByTop(Ranges)]
       IN  /\ pvScrollTop >= last_.bottom =>
                /\ InverseLineFloat(Ranges, pvScrollTop) = R(last_.endLine)
                /\ taScrollTop' = EditorOffsetOf(R(last_.endLine))
           /\ pvScrollTop < first.top =>
                /\ InverseLineFloat(Ranges, pvScrollTop) = R(first.startLine)
                /\ taScrollTop' = EditorOffsetOf(R(first.startLine))]_vars

\* the preview stood below the last block, which ends after line 1, and the
\* editor was moved off its top
C19_Witness ==
  /\ last.op = "handled" /\ last.pane = "preview"
  /\ Ranges # <<>>
  /\ pvScrollTop >= Ranges[LastByTop(Ranges)].bottom
  /\ Ranges[LastByTop(Ranges)].endLine > 1
  /\ taScrollTop = EditorOffsetOf(R(Ranges[LastByTop(Ranges)].endLine))
  /\ taScrollTop > 0

\* the first block in top order whose bottom is not above p (0: none)
FirstReaching(byTop, p) ==
  LET S == {i \in 1..Len(byTop) : byTop[i].bottom >= p}
  IN  IF S = {} THEN 0 ELSE CHOOSE i \in S : \A j \in S : i <= j

\* p is inside a block, and p is in the pixel gap between two blocks
InsideBlock(byTop, p) ==
  FirstReaching(byTop, p) > 0 /\ byTop[FirstReaching(byTop, p)].top <= p
InPixelGap(byTop, p) ==
  FirstReaching(byTop, p) > 1 /\ byTop[FirstReaching(byTop, p)].top > p

\* C20: for a preview offset p inside a block of positive height, lineFloat
\* is startLine + ((p - top) / (bottom - top)) * (endLine - startLine); for p
\* in the pixel gap between two blocks, lineFloat is before.endLine + ((p -
\* before.bottom) / (after.top - before.bottom)) * (after.startLine -
\* before.endLine).
C20_InverseInterpolation ==
  [][(PreviewHandled /\ Ranges # <<>>) =>
       LET byTop == SortByTop(Ranges)
           p == pvScrollTop
           a == FirstReaching(byTop, p)
       IN  /\ (InsideBlock(byTop, p) /\ byTop[a].bottom > byTop[a].top) =>
                LET lf == RAdd(R(byTop[a].startLine),
                               RMul(RNorm(p - byTop[a].top, byTop[a].bottom - byTop[a].top),
                                    R(byTop[a].endLine - byTop[a].startLine)))
                IN  /\ InverseLineFloat(Ranges, p) = lf
                    /\ taScrollTop' = EditorOffsetOf(lf)
           /\ InPixelGap(byTop, p) =>
                LET lf == RAdd(R(byTop[a - 1].endLine),
                               RMul(RNorm(p - byTop[a - 1].bottom,
                                          byTop[a].top - byTop[a - 1].bottom),
                                    R(byTop[a].startLine - byTop[a - 1].endLine)))
                IN  /\ InverseLineFloat(Ranges, p) = lf
                    /\ taScrollTop' = EditorOffsetOf(lf)]_vars

\* C20 as amended: for a preview offset p above the bottom of the last block
\* by pixel position and inside a block, lineFloat is startLine + ((p - top) /
\* max(1, bottom - top)) * span, span being endLine - startLine, or 1 for a
\* block of one line; for p in the pixel gap between two blocks, lineFloat is
\* before.endLine + ((p - before.bottom) / max(1, after.top - before.bottom))
\* * max(1, after.startLine - before.endLine).
C20_InverseInterpolationGuarded ==
  [][(PreviewHandled /\ Ranges # <<>>) =>
       LET byTop == SortByTop(Ranges)
           p == pvScrollTop
           a == FirstReaching(byTop, p)
       IN  /\ (InsideBlock(byTop, p) /\ p < Ranges[LastByTop(Ranges)].bottom) =>
                LET span == byTop[a].endLine - byTop[a].startLine
                    lf == RAdd(R(byTop[a].startLine),
                               RMul(RNorm(p - byTop[a].top,
                                          Max(1, byTop[a].bottom - byTop[a].top)),
                                    R(IF span > 0 THEN span ELSE 1)))
                IN  /\ InverseLineFloat(Ranges, p) = lf
                    /\ taScrollTop' = EditorOffsetOf(lf)
           /\ InPixelGap(byTop, p) =>
                LET lf == RAdd(R(byTop[a - 1].endLine),
                               RMul(RNorm(p - byTop[a - 1].bottom,
                                          Max(1, byTop[a].top - byTop[a - 1].bottom)),
                                    R(Max(1, byTop[a].startLine - byTop[a - 1].endLine))))
                IN  /\ InverseLineFloat(Ranges, p) = lf
                    /\ taScrollTop' = EditorOffsetOf(lf)]_vars

\* the preview stood strictly inside a block of one line that is not the
\* last one, and the editor was put inside that line
C20_Witness ==
  /\ last.op = "handled" /\ last.pane = "preview"
  /\ Ranges # <<>>
  /\ LET byTop == SortByTop(Ranges)
         a == FirstReaching(byTop, pvScrollTop)
     IN  /\ InsideBlock(byTop, pvScrollTop)
         /\ pvScrollTop < Ranges[LastByTop(Ranges)].bottom
         /\ byTop[a].endLine = byTop[a].startLine
         /\ byTop[a].top < pvScrollTop /\ pvScrollTop < byTop[a].bottom
         /\ taScrollTop > Metrics.lineTops[byTop[a].startLine]
         /\ taScrollTop < Metrics.lineTops[byTop[a].startLine]
                            + Metrics.lineHeights[byTop[a].startLine]

(***************************************************************************)
(* Well-formed ranges (claim C21).                                         *)
(***************************************************************************)
\* the element has a positive start line and a positive end line
Annotated(el) == el.startAttr > 0 /\ el.endAttr > 0

\* C21: every range of getPreviewBlockRanges has startLine >= 1, endLine >=
\* startLine and bottom >= top; the list ascends by (startLine, top); an
\* element without a positive start or end line yields no range and leaves
\* the ranges of the other elements as they are without it.
C21_RangesWellFormed ==
  /\ \A i \in 1..Len(Ranges) :
       /\ Ranges[i].startLine >= 1
       /\ Ranges[i].endLine >= Ranges[i].startLine
       /\ Ranges[i].bottom >= Ranges[i].top
  /\ \A i \in 1..(Len(Ranges) - 1) :
       \/ Ranges[i].startLine < Ranges[i + 1].startLine
       \/ /\ Ranges[i].startLine = Ranges[i + 1].startLine
          /\ Ranges[i].top <= Ranges[i + 1].top
  /\ Len(Ranges) = Cardinality({i \in 1..Len(blocks) : Annotated(blocks[i])})
  /\ Ranges = getPreviewBlockRanges(SelectSeq(blocks, Annotated), pvScrollTop)

\* a handler ran on a preview whose annotated elements are not in line
\* order: the first range is the one of the second element
C21_Witness ==
  /\ last.op = "handled"
  /\ Len(blocks) = 2 /\ Len(Ranges) = 2
  /\ blocks[1].startAttr > blocks[2].startAttr
  /\ Ranges[1].startLine = blocks[2].startAttr

(***************************************************************************)
(* The metrics cache (claim C22).                                          *)
(***************************************************************************)
\* the cached metrics are those of the live content and width
KeyMatches ==
  /\ editorMetricsRef # <<>>
  /\ editorMetricsRef[1].content = content
  /\ editorMetricsRef[1].width = width

\* a handler run that called ensureEditorMetrics and ran to its end
MetricsUsed == HandlerStep /\ last'.op = "handled" /\ Ranges # <<>>

\* C22: a call of ensureEditorMetrics with the cached key equal to the live
\* content and width leaves the cached object as it is and builds nothing;
\* with another key, or no cache, it builds the metrics of the live content
\* and width and stores them; no other step changes a cached object but to
\* drop it.
C22_CacheReuse ==
  [][IF MetricsUsed
     THEN IF KeyMatches
          THEN editorMetricsRef' = editorMetricsRef /\ ~last'.built
          ELSE /\ last'.built
               /\ editorMetricsRef' = <<BuildMetrics(content, width)>>
               /\ editorMetricsRef' # editorMetricsRef
     ELSE editorMetricsRef' \in {editorMetricsRef, <<>>}]_vars

\* metrics were built after a resize, and a later handler run used them as
\* cached
C22_Witness ==
  /\ last.op = "handled" /\ ~last.built
  /\ Ranges # <<>>
  /\ editorMetricsRef # <<>>
  /\ editorMetricsRef[1].width = 2 /\ width = 2

(***************************************************************************)
(* Unmount (claim C23).                                                    *)
(***************************************************************************)
\* C23: the unmount removes the mirror and clears the metrics cache, whatever
\* the state of the session; once unmounted, the session has no mirror
\* element in the document.
C23_UnmountTearsDown ==
  /\ ~mounted =>
       /\ bodyMirrors = 0
       /\ editorMirrorRef = "null"
       /\ editorMetricsRef = <<>>
  /\ bodyMirrors \in {0, 1}
  /\ bodyMirrors = 1 <=> editorMirrorRef = "div"

\* the session was unmounted while its lock was armed by a handler run that
\* had built metrics in a mirror
C23_Witness ==
  /\ ~mounted
  /\ last.op = "handled" /\ last.built
  /\ isScrollSyncing
  /\ bodyMirrors = 0

(***************************************************************************)
(* Lock and timer (claim C24).                                             *)
(***************************************************************************)
\* C24: between handler runs the lock is armed exactly when one timeout is
\* pending, and never more than one is; a handler run that writes an offset
\* leaves the lock armed; the lock is only released by the callback of the
\* pending timeout, the one scrollSyncTimeoutRef names.
C24_LockTimerPairing ==
  /\ [](isScrollSyncing <=> Cardinality(timers) = 1)
  /\ [](Cardinality(timers) <= 1)
  /\ [][(HandlerStep /\ <<taScrollTop, pvScrollTop>>' # <<taScrollTop, pvScrollTop>>)
          => isScrollSyncing']_vars
  /\ [][(isScrollSyncing /\ ~isScrollSyncing') =>
          /\ UnlockTimer
          /\ timers = {scrollSyncTimeoutRef}
          /\ timers' = {}]_vars

\* the timeout of a second sync cycle fired and released the lock
C24_Witness ==
  /\ last.op = "unlock"
  /\ scrollSyncTimeoutRef = 2
  /\ ~isScrollSyncing /\ timers = {}

(***************************************************************************)
(* Quiescence (claims C25, C26).                                           *)
(***************************************************************************)
\* lock released, no timeout pending, no scroll event queued
Quiescent == ~isScrollSyncing /\ timers = {} /\ pending = NoEvents

\* C25: after one scroll by the user and nothing more from the user, the
\* session comes to rest: from some point on the lock is released, no timeout
\* is pending and no scroll event is queued, so no further offset is written.
C25_Quiesces == <>[]Quiescent
\* the session came to rest after the handlers had moved both panes off the
\* top: the last step was the timeout callback and nothing is left to run
C25_Witness ==
  /\ Quiescent
  /\ last.op = "unlock"
  /\ taScrollTop > 0
  /\ pvScrollTop > 0

\* C26: after any sequence of scrolls of the textarea by the user, once the
\* session is at rest after a handler has run, the preview stands where the
\* forward mapper puts it for the textarea's final offset.
C26_LastScrollSynced ==
  (Quiescent /\ last.op = "unlock") => pvScrollTop = ForwardImage

(***************************************************************************)
(* The metrics in use (claim C27).                                         *)
(***************************************************************************)
\* C27: the metrics a handler run maps with are those of the live content
\* and the live width: their key is the content and the width of the moment,
\* and their tables are what measuring that content at that width gives.
C27_MetricsCurrent ==
  [][MetricsUsed =>
       /\ editorMetricsRef' # <<>>
       /\ editorMetricsRef'[1].content = content'
       /\ editorMetricsRef'[1].width = width'
       /\ editorMetricsRef'[1].lineHeights = MeasureHeights(content', width')
       /\ editorMetricsRef'[1].lineTops = MeasureTops(content', width')]_vars

\* a handler run built the metrics of the second document at the narrow
\* width: the buffer was edited and the window resized since the session began
C27_Witness ==
  /\ last.op = "handled" /\ last.built
  /\ content = DocList.content
  /\ width = 2
  /\ editorMetricsRef = <<BuildMetrics(DocList.content, 2)>>

(***************************************************************************)
(* Outside split view (claim C28).                                         *)
(***************************************************************************)
\* C28: when the view mode is not split, or a pane is not mounted, the
\* dispatch of a scroll event to either handler writes no offset, leaves the
\* lock as it is and neither sets nor clears a timeout.
C28_NoSyncOutsideSplit ==
  [][(HandlerStep /\ (viewMode # "split" \/ RefMissing)) =>
       UNCHANGED <<taScrollTop, pvScrollTop, isScrollSyncing, timers,
                   scrollSyncTimeoutRef>>]_vars

\* the user scrolled the textarea in edit mode with the lock released, and the
\* handler returned at once
C28_Witness ==
  /\ last.op = "dropped" /\ last.pane = "editor" /\ last.kind = "user"
  /\ viewMode = "edit"
  /\ taScrollTop > 0
  /\ ~isScrollSyncing /\ timers = {}

(***************************************************************************)
(* Monotonicity of the forward mapping (claim C29).                        *)
(***************************************************************************)
\* the range list ascends without overlap in lines and in pixel bands
AscendingDisjoint(ranges) ==
  \A i \in 1..(Len(ranges) - 1) :
    /\ ranges[i].endLine < ranges[i + 1].startLine
    /\ ranges[i].bottom <= ranges[i + 1].top

\* the offset the preview gets for the textarea at x, with the ranges and the
\* metrics of the state
ForwardImageOf(x) ==
  SetScrollTop(ForwardValue(Ranges, Metrics, x, taMax, pvMax),
               pvScrollHeight, pvClientHeight)

\* C29: with ranges that ascend without overlap in lines and pixels, the
\* preview offset the handler of the textarea has just written for the
\* textarea's offset is not below the offset it computes for any smaller
\* textarea offset, and not above the one for any larger.
C29_ForwardMonotone ==
  (/\ last.op = "handled" /\ last.pane = "editor"
   /\ Ranges # <<>>
   /\ AscendingDisjoint(Ranges)) =>
    \A x \in MapOffsets(taMax) :
      /\ x <= taScrollTop => ForwardImageOf(x) <= pvScrollTop
      /\ x >= taScrollTop => ForwardImageOf(x) >= pvScrollTop

(***************************************************************************)
(* Indices into the metrics tables (claim C30).                            *)
(***************************************************************************)
\* line numbers from -1 to N + 3 in halves
LineFloatProbes(n) == {<<k, 2>> : k \in (-2)..(2 * n + 6)}

\* C30: for a buffer of N >= 1 lines, the index the binary search of
\* getEditorTopLine ends with, for every scroll offset of the textarea, and
\* the index baseLine - 1 of lineFloatToEditorScrollTop, for the lineFloat of
\* the preview's offset and for every lineFloat from below 1 to above N + 1,
\* are in 0..N-1.
C30_IndicesInRange ==
  LET m == Metrics
      n == Len(m.lineTops)
  IN  /\ n >= 1
      /\ \A y \in MapOffsets(taMax) \cup {taScrollTop} :
           TopLineSearch(m.lineTops, y, 0, n - 1, 0) \in 0..(n - 1)
      /\ \A lf \in LineFloatProbes(n) :
           BaseLine(m, lf) - 1 \in 0..(n - 1)
      /\ Ranges # <<>> =>
           BaseLine(m, InverseLineFloat(Ranges, pvScrollTop)) - 1 \in 0..(n - 1)

\* the handler of the preview mapped the line number of the last line of a
\* buffer of several lines: lineFloatToEditorScrollTop read the last entry of
\* the tables, and the binary search ends at a later line than the first
C30_Witness ==
  /\ last.op = "handled" /\ last.pane = "preview"
  /\ Ranges # <<>>
  /\ Len(content) > 1
  /\ InverseLineFloat(Ranges, pvScrollTop) = R(Len(content))
  /\ BaseLine(Metrics, InverseLineFloat(Ranges, pvScrollTop)) - 1 = Len(content) - 1
  /\ TopLineSearch(Metrics.lineTops, taScrollTop, 0, Len(content) - 1, 0) > 0

====
